---- MODULE Spec2Model ----
(***************************************************************************)
(* Model of the Jupiter Power Wash worker's chat endpoint (handleChat,     *)
(* src/worker/index.js) over the D1 tables of src/worker/schema.sql.       *)
(*                                                                         *)
(* A text is a sequence of tokens.  A token is a run of whitespace, a word *)
(* of visible text, the begin marker ###BOOKING_DATA###, the end marker    *)
(* ###END_BOOKING###, or a piece of JSON text.  Each request is handled by *)
(* a handler whose pc sits at the await it is suspended on; the code       *)
(* between two awaits runs as one step.  Spec takes the requests one after *)
(* another: a request is received once the one before it was answered.     *)
(* SpecConcurrent lets the requests of the handlers overlap.               *)
(***************************************************************************)
EXTENDS Integers, Sequences, FiniteSets, TLC

VARIABLES conversations, bookings, clock, started, req, discordLog, emailLog

vars == <<conversations, bookings, clock, started, req, discordLog, emailLog>>

(***************************************************************************)
(* Bounds of the model.                                                    *)
(***************************************************************************)
MaxRequests == 2        \* chat requests received in one behaviour

(***************************************************************************)
(* Program constants.                                                      *)
(***************************************************************************)
HistoryLimit == 20      \* LIMIT 20 of the history query

Fields == {"name", "email", "phone", "service", "date", "time", "address"}

ChatNote == "Booked via AI chatbot"


(***************************************************************************)
(* Tokens and texts.                                                       *)
(***************************************************************************)
WS == [k |-> "ws"]
BeginMarker == [k |-> "begin"]
EndMarker == [k |-> "end"]
Word(w) == [k |-> "word", v |-> w]
Json(p) == [k |-> "json", v |-> p]

\* The payload of the spec's scenario and a second customer's payload.
Jane == [name |-> "Jane Doe", email |-> "jane@x.com", phone |-> "5551234567",
         service |-> "residential-driveway", date |-> "2024-06-01",
         time |-> "morning", address |-> "12 Ocean Dr"]

Raul == [name |-> "Raul Diaz", email |-> "raul@y.com", phone |-> "5559876543",
         service |-> "residential-deck", date |-> "2024-06-02",
         time |-> "evening", address |-> "7 Palm Ct"]

\* Jane's payload with field f an empty string, and with key f left out.
WithEmpty(f) == [Jane EXCEPT ![f] = ""]
Without(f) == [g \in Fields \ {f} |-> Jane[g]]

\* The payloads the model is seen to emit, over the seven keys of the
\* protocol and with string values: complete ones, one with an empty value
\* and one with a key missing.
Payloads == {Jane, WithEmpty("email"), Without("phone")}

(***************************************************************************)
(* Text functions of handleChat.                                           *)
(***************************************************************************)
IsWS(tok) == tok.k = "ws"

\* String.prototype.trim: whitespace removed from both ends only.
RECURSIVE TrimStart(_)
TrimStart(t) == IF t # << >> /\ IsWS(Head(t)) THEN TrimStart(Tail(t)) ELSE t

RECURSIVE TrimEnd(_)
TrimEnd(t) ==
    IF t # << >> /\ IsWS(t[Len(t)]) THEN TrimEnd(SubSeq(t, 1, Len(t) - 1)) ELSE t

Trim(t) == TrimEnd(TrimStart(t))

\* Positions of the begin markers that have an end marker somewhere after them.
OpenPositions(t) ==
    {i \in 1..Len(t) : /\ t[i] = BeginMarker
                       /\ \E j \in (i + 1)..Len(t) : t[j] = EndMarker}

Min(S) == CHOOSE x \in S : \A y \in S : x <= y

\* The span both regular expressions match: they have no g flag, so the match
\* is the leftmost one, and [\s\S]*? is lazy, so it closes at the first end
\* marker after the begin marker.
HasBlock(t) == OpenPositions(t) # {}
BlockStart(t) == Min(OpenPositions(t))
BlockEnd(t) == Min({j \in (BlockStart(t) + 1)..Len(t) : t[j] = EndMarker})

\* bookingMatch[1]: the \s* on both sides of the group leave it without
\* leading or trailing whitespace.
MatchGroup(t) == Trim(SubSeq(t, BlockStart(t) + 1, BlockEnd(t) - 1))

\* JSON.parse: the text must be exactly one JSON value.
ParseOk(g) == Len(g) = 1 /\ g[1].k = "json"
ParseValue(g) == g[1].v

\* assistantMessage.replace(/###BOOKING_DATA###[\s\S]*?###END_BOOKING###/, '').trim()
RemoveBlock(t) ==
    IF HasBlock(t)
    THEN SubSeq(t, 1, BlockStart(t) - 1) \o SubSeq(t, BlockEnd(t) + 1, Len(t))
    ELSE t

\* The reply as it would be without the trim.
CleanResponseUntrimmed(t) == RemoveBlock(t)

CleanResponse(t) == Trim(RemoveBlock(t))

SystemPrompt == <<Word("SYSTEM_PROMPT")>>

FallbackText == <<Word("I'm having a little trouble right now. You can call us directly at 561.532.7120 or use the booking form above!")>>

\* What the model may answer: plain text, the scenario of the spec around each
\* payload and around text that is no JSON, two blocks, and a begin marker
\* that no end marker follows.
Scenario(block) ==
    <<Word("Great, confirming!"), WS, BeginMarker, WS>> \o block
        \o <<WS, EndMarker, WS, Word("Thanks!")>>

AssistantTexts ==
    {<<Word("Sure!")>>,
     <<WS, Word("Sure!"), WS>>,
     <<Word("One moment"), BeginMarker, Json(Jane)>>,
     <<BeginMarker, Json(Jane), EndMarker, WS, BeginMarker, Json(Raul), EndMarker>>,
     Scenario(<<Word("{oops")>>)}
    \cup {Scenario(<<Json(p)>>) : p \in Payloads}

(***************************************************************************)
(* The D1 tables (schema.sql).  Rows are never deleted, so the rowid that  *)
(* AUTOINCREMENT assigns is the row's position in the table.               *)
(***************************************************************************)
Turn(id, sid, role, content, at) ==
    [id |-> id, session_id |-> sid, role |-> role, content |-> content, created_at |-> at]

BookingRow(id, data, notes, at) ==
    [id |-> id, name |-> data.name, email |-> data.email, phone |-> data.phone,
     service |-> data.service, date |-> data.date, time |-> data.time,
     address |-> data.address, notes |-> notes, status |-> "pending", created_at |-> at]

\* ORDER BY created_at ASC: SQL leaves the order of rows with equal created_at
\* open; SQLite visits them by rowid, ascending or (with
\* reverse_unordered_selects) descending.
Before(a, b, rev) ==
    \/ a.created_at < b.created_at
    \/ /\ a.created_at = b.created_at
       /\ IF rev THEN a.id > b.id ELSE a.id < b.id

OrderByCreatedAt(S, rev) ==
    [i \in 1..Cardinality(S) |->
        CHOOSE row \in S : Cardinality({o \in S : Before(o, row, rev)}) = i - 1]

Limit(q, n) == SubSeq(q, 1, IF Len(q) < n THEN Len(q) ELSE n)

\* s begins with p, for the session identifiers of the model.
StartsWith(s, p) == \E rest \in {"", "b"} : s = p \o rest

\* The query as it would be with a pattern match in place of the equality:
\* WHERE ? LIKE session_id || '%', the rows whose identifier begins the
\* request's identifier.
SelectHistoryLike(sid, rev) ==
    LET rows == {conversations[i] : i \in 1..Len(conversations)}
        mine == {row \in rows : StartsWith(sid, row.session_id)}
        top == Limit(OrderByCreatedAt(mine, rev), HistoryLimit)
    IN  [i \in 1..Len(top) |-> [role |-> top[i].role, content |-> top[i].content]]

\* SELECT role, content FROM conversations WHERE session_id = ?
\*   ORDER BY created_at ASC LIMIT 20
SelectHistory(sid, rev) ==
    LET rows == {conversations[i] : i \in 1..Len(conversations)}
        mine == {row \in rows : row.session_id = sid}
        top == Limit(OrderByCreatedAt(mine, rev), HistoryLimit)
    IN  [i \in 1..Len(top) |-> [role |-> top[i].role, content |-> top[i].content]]

\* The messages array with the new message put before the history.
BuildMessagesUserFirst(history, message) ==
    <<[role |-> "system", content |-> SystemPrompt]>>
    \o <<[role |-> "user", content |-> message]>>
    \o [i \in 1..Len(history) |-> [role |-> history[i].role, content |-> history[i].content]]

\* The messages array handed to the model.
BuildMessages(history, message) ==
    <<[role |-> "system", content |-> SystemPrompt]>>
    \o [i \in 1..Len(history) |-> [role |-> history[i].role, content |-> history[i].content]]
    \o <<[role |-> "user", content |-> message]>>

(***************************************************************************)
(* Requests and responses.                                                 *)
(***************************************************************************)
\* Handler invocations; a handler that has responded takes the next request.
Handlers == {1, 2}

SessionIds == {"a", "ab"}
Messages == {<<Word("hi")>>}

\* A request body: unparseable, or a JSON object with some of the two keys.
BadBody == [kind |-> "invalid"]
ObjectBodies ==
    {[kind |-> "object", has |-> h,
      message |-> IF "message" \in h THEN m ELSE << >>,
      sessionId |-> IF "sessionId" \in h THEN sid ELSE ""] :
        h \in SUBSET {"message", "sessionId"},
        m \in Messages \cup {<< >>},
        sid \in SessionIds \cup {""}}
Bodies == {BadBody} \cup ObjectBodies

\* !message and !sessionId on the destructured body.
Falsy(body, key) == key \notin body.has \/ body[key] = IF key = "message" THEN << >> ELSE ""

Null == [null |-> TRUE]
NoResponse == [status |-> 0]

JsonResponse(data, status) == [status |-> status, body |-> data]

\* bookingCreated with an id taken from the row count before the insert.
BookingCreatedStale(bookingId, data) == data @@ [id |-> bookingId - 1]

\* { id: bookingId, ...bookingData }: a key of the payload wins over id.
BookingCreatedOf(bookingId, data) == data @@ [id |-> bookingId]

IdleRequest ==
    [pc |-> "idle", body |-> BadBody, message |-> << >>, sessionId |-> "",
     history |-> << >>, messages |-> << >>, assistantMessage |-> << >>,
     bookingData |-> Null, bookingCreated |-> Null, response |-> NoResponse,
     turnIds |-> {}, bookingIds |-> {}]

(***************************************************************************)
(* handleChat.  pc names the await the handler is suspended on:            *)
(*   load (the history query), ai (env.AI.run), batch (the two-turn        *)
(*   insert), insert (the booking insert), discord, email, done.           *)
(* turnIds and bookingIds are history variables: the rows a request wrote. *)
(***************************************************************************)

\* The catch as handleBooking and handleContact have it: an error with 500.
ChatError500 == JsonResponse([error |-> "Failed to process chat. Please call 561.532.7120"], 500)

\* The catch of the outer try: the apology with the phone number.
ChatError == JsonResponse([response |-> FallbackText], 200)

\* The response at the end of the try: cleaned reply and bookingCreated.
ChatReply(st) ==
    JsonResponse([response |-> CleanResponse(st.assistantMessage),
                  bookingCreated |-> st.bookingCreated], 200)

Fail(st) == [st EXCEPT !.pc = "done", !.response = ChatError]
Finish(st) == [st EXCEPT !.pc = "done", !.response = ChatReply(st)]

\* The validation as it would be if it tested the message alone.
ReceiveChecksMessageOnly(r) ==
    /\ started < MaxRequests
    /\ \A h \in Handlers : req[h].pc = "idle"
    /\ r = Min(Handlers)
    /\ started' = started + 1
    /\ \E body \in Bodies :
         req' = [req EXCEPT ![r] =
                   IF body.kind = "invalid"
                   THEN Fail([@ EXCEPT !.body = body])
                   ELSE IF Falsy(body, "message")
                   THEN [@ EXCEPT !.body = body, !.pc = "done",
                                  !.response = JsonResponse([error |-> "Message and sessionId required"], 400)]
                   ELSE [@ EXCEPT !.body = body, !.pc = "load",
                                  !.message = body.message, !.sessionId = body.sessionId]]
    /\ UNCHANGED <<conversations, bookings, clock, discordLog, emailLog>>

\* request.json() and the validation of message and sessionId, for a request
\* that arrives when no other is being handled.
Receive(r) ==
    /\ started < MaxRequests
    /\ \A h \in Handlers : req[h].pc = "idle"
    /\ r = Min(Handlers)
    /\ started' = started + 1
    /\ \E body \in Bodies :
         req' = [req EXCEPT ![r] =
                   IF body.kind = "invalid"
                   THEN Fail([@ EXCEPT !.body = body])
                   ELSE IF Falsy(body, "message") \/ Falsy(body, "sessionId")
                   THEN [@ EXCEPT !.body = body, !.pc = "done",
                                  !.response = JsonResponse([error |-> "Message and sessionId required"], 400)]
                   ELSE [@ EXCEPT !.body = body, !.pc = "load",
                                  !.message = body.message, !.sessionId = body.sessionId]]
    /\ UNCHANGED <<conversations, bookings, clock, discordLog, emailLog>>

\* The history query resolves, and the messages array is built.
LoadHistory(r) ==
    /\ req[r].pc = "load"
    /\ \E rev \in BOOLEAN :
         LET history == SelectHistory(req[r].sessionId, rev)
         IN  req' = [req EXCEPT ![r] =
                       [@ EXCEPT !.pc = "ai", !.history = history,
                                 !.messages = BuildMessages(history, req[r].message)]]
    /\ UNCHANGED <<conversations, bookings, clock, started, discordLog, emailLog>>

\* The history query rejects.
LoadHistoryFails(r) ==
    /\ req[r].pc = "load"
    /\ req' = [req EXCEPT ![r] = Fail(@)]
    /\ UNCHANGED <<conversations, bookings, clock, started, discordLog, emailLog>>

\* env.AI.run resolves with some text.  history and messages are not read
\* again after the call.
RunModel(r) ==
    /\ req[r].pc = "ai"
    /\ \E text \in AssistantTexts :
         req' = [req EXCEPT ![r] = [@ EXCEPT !.pc = "batch", !.assistantMessage = text,
                                             !.history = << >>, !.messages = << >>]]
    /\ UNCHANGED <<conversations, bookings, clock, started, discordLog, emailLog>>

\* env.AI.run rejects.
RunModelFails(r) ==
    /\ req[r].pc = "ai"
    /\ req' = [req EXCEPT ![r] = Fail(@)]
    /\ UNCHANGED <<conversations, bookings, clock, started, discordLog, emailLog>>

\* The steps after the batch without the inner try: a parse error or a refused
\* bind reaches the outer catch.
AfterBatchUncaught(st) ==
    LET text == st.assistantMessage
    IN  IF ~HasBlock(text) THEN Finish(st)
        ELSE IF ~ParseOk(MatchGroup(text)) THEN Fail(st)
        ELSE IF ~(Fields \subseteq DOMAIN ParseValue(MatchGroup(text))) THEN Fail(st)
        ELSE [st EXCEPT !.pc = "insert", !.bookingData = ParseValue(MatchGroup(text))]

\* After the batch: match, JSON.parse and the bind of the booking insert.  A
\* missing key binds undefined, which D1 refuses; that and a parse error land
\* in the inner catch, and the handler goes on to the response.
AfterBatch(st) ==
    LET text == st.assistantMessage
    IN  IF ~HasBlock(text) THEN Finish(st)
        ELSE IF ~ParseOk(MatchGroup(text)) THEN Finish(st)
        ELSE IF ~(Fields \subseteq DOMAIN ParseValue(MatchGroup(text))) THEN Finish(st)
        ELSE [st EXCEPT !.pc = "insert", !.bookingData = ParseValue(MatchGroup(text))]

\* The two inserts as they would run outside a batch: the user turn in one
\* step, the assistant turn in a later one.
StoreTurnsOneByOne(r) ==
    /\ req[r].pc = "batch"
    /\ LET n == Len(conversations)
           st == req[r]
       IN  IF st.turnIds = {}
           THEN /\ conversations' = Append(conversations, Turn(n + 1, st.sessionId, "user", st.message, clock))
                /\ req' = [req EXCEPT ![r] = [@ EXCEPT !.turnIds = {n + 1}]]
           ELSE /\ conversations' = Append(conversations,
                                          Turn(n + 1, st.sessionId, "assistant", st.assistantMessage, clock))
                /\ req' = [req EXCEPT ![r] = AfterBatch([@ EXCEPT !.turnIds = @ \cup {n + 1}])]
    /\ UNCHANGED <<bookings, clock, started, discordLog, emailLog>>

\* The batch as it would be if it stored the reply shown to the client.
StoreTurnsCleaned(r) ==
    /\ req[r].pc = "batch"
    /\ LET n == Len(conversations)
           st == req[r]
       IN  /\ conversations' = conversations
                  \o <<Turn(n + 1, st.sessionId, "user", st.message, clock),
                       Turn(n + 2, st.sessionId, "assistant", CleanResponse(st.assistantMessage), clock)>>
           /\ req' = [req EXCEPT ![r] = AfterBatch([@ EXCEPT !.turnIds = {n + 1, n + 2}])]
    /\ UNCHANGED <<bookings, clock, started, discordLog, emailLog>>

\* env.DB.batch commits both turns, in one transaction.
StoreTurns(r) ==
    /\ req[r].pc = "batch"
    /\ LET n == Len(conversations)
           st == req[r]
       IN  /\ conversations' = conversations
                  \o <<Turn(n + 1, st.sessionId, "user", st.message, clock),
                       Turn(n + 2, st.sessionId, "assistant", st.assistantMessage, clock)>>
           /\ req' = [req EXCEPT ![r] = AfterBatch([@ EXCEPT !.turnIds = {n + 1, n + 2}])]
    /\ UNCHANGED <<bookings, clock, started, discordLog, emailLog>>

\* The rejected batch as a handler would take it that does not wait for the
\* batch: it goes on to the booking and the reply.
StoreTurnsFailsIgnored(r) ==
    /\ req[r].pc = "batch"
    /\ req' = [req EXCEPT ![r] = AfterBatch(@)]
    /\ UNCHANGED <<conversations, bookings, clock, started, discordLog, emailLog>>

\* env.DB.batch rejects: neither turn is stored.
StoreTurnsFails(r) ==
    /\ req[r].pc = "batch"
    /\ req' = [req EXCEPT ![r] = Fail(@)]
    /\ UNCHANGED <<conversations, bookings, clock, started, discordLog, emailLog>>

\* The insert as a handler would run it that repeats the statement.
InsertBookingTwice(r) ==
    /\ req[r].pc = "insert"
    /\ LET bookingId == Len(bookings) + 2
           st == req[r]
       IN  /\ bookings' = bookings \o <<BookingRow(bookingId - 1, st.bookingData, ChatNote, clock),
                                         BookingRow(bookingId, st.bookingData, ChatNote, clock)>>
           /\ req' = [req EXCEPT ![r] =
                        [@ EXCEPT !.pc = "discord",
                                  !.bookingCreated = BookingCreatedOf(bookingId, st.bookingData),
                                  !.bookingIds = @ \cup {bookingId - 1, bookingId}]]
    /\ UNCHANGED <<conversations, clock, started, discordLog, emailLog>>

\* The booking insert commits; bookingCreated is set from last_row_id.
InsertBooking(r) ==
    /\ req[r].pc = "insert"
    /\ LET bookingId == Len(bookings) + 1
           st == req[r]
       IN  /\ bookings' = Append(bookings, BookingRow(bookingId, st.bookingData, ChatNote, clock))
           /\ req' = [req EXCEPT ![r] =
                        [@ EXCEPT !.pc = "discord",
                                  !.bookingCreated = BookingCreatedOf(bookingId, st.bookingData),
                                  !.bookingIds = @ \cup {bookingId}]]
    /\ UNCHANGED <<conversations, clock, started, discordLog, emailLog>>

\* The booking insert rejects: the inner catch logs it.
InsertBookingFails(r) ==
    /\ req[r].pc = "insert"
    /\ req' = [req EXCEPT ![r] = Finish(@)]
    /\ UNCHANGED <<conversations, bookings, clock, started, discordLog, emailLog>>

\* A dispatch is answered ok, or fails (an error status, or a rejected fetch).
Outcomes == {"ok", "failed"}

\* sendDiscord as it would end the request were its throw not caught inside.
SendDiscordUncaught(r) ==
    /\ req[r].pc = "discord"
    /\ \E outcome \in Outcomes :
         /\ discordLog' = discordLog \cup {[bookingId |-> req[r].bookingCreated.id, outcome |-> outcome]}
         /\ req' = [req EXCEPT ![r] = IF outcome = "ok" THEN [@ EXCEPT !.pc = "email"] ELSE Fail(@)]
    /\ UNCHANGED <<conversations, bookings, clock, started, emailLog>>

\* sendDiscord: throws unless the webhook answers ok; the inner catch logs it.
SendDiscord(r) ==
    /\ req[r].pc = "discord"
    /\ \E outcome \in Outcomes :
         /\ discordLog' = discordLog \cup {[bookingId |-> req[r].bookingCreated.id, outcome |-> outcome]}
         /\ req' = [req EXCEPT ![r] = IF outcome = "ok" THEN [@ EXCEPT !.pc = "email"] ELSE Finish(@)]
    /\ UNCHANGED <<conversations, bookings, clock, started, emailLog>>

\* sendEmail as it would be if it marked the booking once the mail is out.
SendEmailMarksNotified(r) ==
    /\ req[r].pc = "email"
    /\ \E outcome \in Outcomes :
         /\ emailLog' = emailLog \cup {[bookingId |-> req[r].bookingCreated.id, outcome |-> outcome]}
         /\ bookings' = [bookings EXCEPT ![req[r].bookingCreated.id].status = "notified"]
         /\ req' = [req EXCEPT ![r] = Finish(@)]
    /\ UNCHANGED <<conversations, clock, started, discordLog>>

\* sendEmail: logs a failed send; a rejected fetch lands in the inner catch.
SendEmail(r) ==
    /\ req[r].pc = "email"
    /\ \E outcome \in Outcomes :
         /\ emailLog' = emailLog \cup {[bookingId |-> req[r].bookingCreated.id, outcome |-> outcome]}
         /\ req' = [req EXCEPT ![r] = Finish(@)]
    /\ UNCHANGED <<conversations, bookings, clock, started, discordLog>>

\* The response has gone out; the handler is free for the next request.
Respond(r) ==
    /\ req[r].pc = "done"
    /\ req' = [req EXCEPT ![r] = IdleRequest]
    /\ UNCHANGED <<conversations, bookings, clock, started, discordLog, emailLog>>

\* CURRENT_TIMESTAMP moves on to the next second.  A request's rows carry the
\* second of their insert, so the seconds that pass show between requests:
\* the next request comes within the second of the last one or later.
Tick ==
    /\ \A h \in Handlers : req[h].pc = "idle"
    /\ 0 < started /\ started < MaxRequests
    /\ clock <= started
    /\ clock' = clock + 1
    /\ UNCHANGED <<conversations, bookings, started, req, discordLog, emailLog>>

\* Earlier exchanges of session "a": n plain question-and-answer pairs, one a
\* second, the last of them a second before the clock starts.  The service
\* starts with as many stored turns as the history query returns.
PriorTurns(n) ==
    [i \in 1..(2 * n) |->
        IF i % 2 = 1
        THEN Turn(i, "a", "user", <<Word("q" \o ToString((i + 1) \div 2))>>, (i + 1) \div 2 - n)
        ELSE Turn(i, "a", "assistant", <<Word("r" \o ToString(i \div 2))>>, i \div 2 - n)]

Init ==
    /\ conversations = PriorTurns(HistoryLimit \div 2)
    /\ bookings = << >>
    /\ clock = 1
    /\ started = 0
    /\ req = [r \in Handlers |-> IdleRequest]
    /\ discordLog = {}
    /\ emailLog = {}

Next ==
    \/ Tick
    \/ \E r \in Handlers :
         \/ Receive(r)
         \/ LoadHistory(r)
         \/ LoadHistoryFails(r)
         \/ RunModel(r)
         \/ RunModelFails(r)
         \/ StoreTurns(r)
         \/ StoreTurnsFails(r)
         \/ InsertBooking(r)
         \/ InsertBookingFails(r)
         \/ SendDiscord(r)
         \/ SendEmail(r)
         \/ Respond(r)

Spec == Init /\ [][Next]_vars

(***************************************************************************)
(* Concurrent requests: the platform runs handlers side by side, and a     *)
(* request may arrive while another is suspended at an await.  In          *)
(* SpecConcurrent each handler serves one request, so as many requests     *)
(* overlap as there are handlers.                                          *)
(***************************************************************************)
\* request.json() and the validation, for a request that arrives at any time;
\* it is taken by the lowest free handler.
ReceiveOverlapping(r) ==
    /\ started < MaxRequests
    /\ req[r].pc = "idle"
    /\ r = Min({h \in Handlers : req[h].pc = "idle"})
    /\ started' = started + 1
    /\ \E body \in Bodies :
         req' = [req EXCEPT ![r] =
                   IF body.kind = "invalid"
                   THEN Fail([@ EXCEPT !.body = body])
                   ELSE IF Falsy(body, "message") \/ Falsy(body, "sessionId")
                   THEN [@ EXCEPT !.body = body, !.pc = "done",
                                  !.response = JsonResponse([error |-> "Message and sessionId required"], 400)]
                   ELSE [@ EXCEPT !.body = body, !.pc = "load",
                                  !.message = body.message, !.sessionId = body.sessionId]]
    /\ UNCHANGED <<conversations, bookings, clock, discordLog, emailLog>>

\* CURRENT_TIMESTAMP moves on to the next second while requests are handled.
TickOverlapping ==
    /\ 0 < started
    /\ clock <= started
    /\ clock' = clock + 1
    /\ UNCHANGED <<conversations, bookings, started, req, discordLog, emailLog>>

NextConcurrent ==
    \/ TickOverlapping
    \/ \E r \in Handlers :
         \/ ReceiveOverlapping(r)
         \/ LoadHistory(r)
         \/ LoadHistoryFails(r)
         \/ RunModel(r)
         \/ RunModelFails(r)
         \/ StoreTurns(r)
         \/ StoreTurnsFails(r)
         \/ InsertBooking(r)
         \/ InsertBookingFails(r)
         \/ SendDiscord(r)
         \/ SendEmail(r)

SpecConcurrent == Init /\ [][NextConcurrent]_vars

(***************************************************************************)
(* handleBooking, the direct booking endpoint, beside handleChat.  pc      *)
(* names the await: bookingInsert, bookingDiscord, bookingEmail.  In       *)
(* SpecEndpoints each handler serves one request, to either endpoint, and  *)
(* the requests overlap.                                                   *)
(***************************************************************************)
\* The order in which handleBooking tests the fields.
Required == <<"name", "email", "phone", "service", "date", "time", "address">>

\* Bodies posted to /api/booking: one that is no JSON, and the payloads, one
\* of them with notes.
BookingBodies ==
    {BadBody} \cup {[kind |-> "booking", data |-> p] :
                        p \in Payloads \cup {Jane @@ [notes |-> "side gate"]}}

\* !data[field]: the key is absent or its value is the empty string.
MissingFields(data) == {i \in 1..Len(Required) : Required[i] \notin DOMAIN data \/ data[Required[i]] = ""}

BookingMissing(field) == JsonResponse([error |-> "Missing required field: " \o field], 400)

\* The catch of handleBooking.
BookingError == JsonResponse([error |-> "Failed to process booking. Please call 561.532.7120"], 500)

BookingSuccess(bookingId) ==
    JsonResponse([success |-> TRUE, bookingId |-> bookingId,
                  message |-> "Booking received! We'll contact you shortly to confirm."], 200)

\* data.notes || ''
NotesOf(data) == IF "notes" \in DOMAIN data THEN data.notes ELSE ""

\* request.json() and the validation loop of handleBooking.
ReceiveBooking(r) ==
    /\ started < MaxRequests
    /\ req[r].pc = "idle"
    /\ r = Min({h \in Handlers : req[h].pc = "idle"})
    /\ started' = started + 1
    /\ \E body \in BookingBodies :
         req' = [req EXCEPT ![r] =
                   IF body.kind = "invalid"
                   THEN [@ EXCEPT !.body = body, !.pc = "done", !.response = BookingError]
                   ELSE IF MissingFields(body.data) # {}
                   THEN [@ EXCEPT !.body = body, !.pc = "done",
                                  !.response = BookingMissing(Required[Min(MissingFields(body.data))])]
                   ELSE [@ EXCEPT !.body = body, !.pc = "bookingInsert", !.bookingData = body.data]]
    /\ UNCHANGED <<conversations, bookings, clock, discordLog, emailLog>>

\* The insert of handleBooking commits; bookingId is last_row_id.
InsertDirect(r) ==
    /\ req[r].pc = "bookingInsert"
    /\ LET bookingId == Len(bookings) + 1
           st == req[r]
       IN  /\ bookings' = Append(bookings, BookingRow(bookingId, st.bookingData, NotesOf(st.bookingData), clock))
           /\ req' = [req EXCEPT ![r] = [@ EXCEPT !.pc = "bookingDiscord", !.bookingIds = @ \cup {bookingId}]]
    /\ UNCHANGED <<conversations, clock, started, discordLog, emailLog>>

\* The insert of handleBooking rejects: the catch answers 500.
InsertDirectFails(r) ==
    /\ req[r].pc = "bookingInsert"
    /\ req' = [req EXCEPT ![r] = [@ EXCEPT !.pc = "done", !.response = BookingError]]
    /\ UNCHANGED <<conversations, bookings, clock, started, discordLog, emailLog>>

\* sendDiscord in handleBooking: its throw reaches the catch of handleBooking.
SendDiscordDirect(r) ==
    /\ req[r].pc = "bookingDiscord"
    /\ \E outcome \in Outcomes :
         /\ discordLog' = discordLog \cup {[bookingId |-> Min(req[r].bookingIds), outcome |-> outcome]}
         /\ req' = [req EXCEPT ![r] =
                      IF outcome = "ok" THEN [@ EXCEPT !.pc = "bookingEmail"]
                      ELSE [@ EXCEPT !.pc = "done", !.response = BookingError]]
    /\ UNCHANGED <<conversations, bookings, clock, started, emailLog>>

\* sendEmail in handleBooking: an error status is logged and the success
\* response follows; a rejected fetch reaches the catch.
SendEmailDirect(r) ==
    /\ req[r].pc = "bookingEmail"
    /\ \E outcome \in Outcomes : \E rejected \in BOOLEAN :
         /\ rejected => outcome = "failed"
         /\ emailLog' = emailLog \cup {[bookingId |-> Min(req[r].bookingIds), outcome |-> outcome]}
         /\ req' = [req EXCEPT ![r] =
                      [@ EXCEPT !.pc = "done",
                                !.response = IF rejected THEN BookingError
                                             ELSE BookingSuccess(Min(req[r].bookingIds))]]
    /\ UNCHANGED <<conversations, bookings, clock, started, discordLog>>

NextEndpoints ==
    \/ TickOverlapping
    \/ \E r \in Handlers :
         \/ ReceiveOverlapping(r)
         \/ LoadHistory(r)
         \/ LoadHistoryFails(r)
         \/ RunModel(r)
         \/ RunModelFails(r)
         \/ StoreTurns(r)
         \/ StoreTurnsFails(r)
         \/ InsertBooking(r)
         \/ InsertBookingFails(r)
         \/ SendDiscord(r)
         \/ SendEmail(r)
         \/ ReceiveBooking(r)
         \/ InsertDirect(r)
         \/ InsertDirectFails(r)
         \/ SendDiscordDirect(r)
         \/ SendEmailDirect(r)

SpecEndpoints == Init /\ [][NextEndpoints]_vars

(***************************************************************************)
(* Vocabulary of the properties.                                           *)
(***************************************************************************)
Done(r) == req[r].pc = "done"

\* The request body carried a non-empty message and a non-empty sessionId.
ValidBody(body) ==
    /\ body.kind = "object"
    /\ {"message", "sessionId"} \subseteq body.has
    /\ body.message # << >>
    /\ body.sessionId # ""

\* The response is the documented chat shape with this reply and booking.
IsReply(resp, reply, booking) ==
    /\ resp.status = 200
    /\ DOMAIN resp.body = {"response", "bookingCreated"}
    /\ resp.body.response = reply
    /\ resp.body.bookingCreated = booking

IsFallback(resp) ==
    /\ resp.status = 200
    /\ "response" \in DOMAIN resp.body
    /\ resp.body.response = FallbackText

\* Positions of a marker in a text.
Positions(t, marker) == {i \in 1..Len(t) : t[i] = marker}

\* The text holds one begin marker and, after it, one end marker.
OnePair(t) ==
    /\ Cardinality(Positions(t, BeginMarker)) = 1
    /\ Cardinality(Positions(t, EndMarker)) = 1
    /\ \A b \in Positions(t, BeginMarker) : \A e \in Positions(t, EndMarker) : b < e

\* What stands between the two markers of a one-pair text, and around them.
Between(t) ==
    LET b == CHOOSE i \in Positions(t, BeginMarker) : TRUE
        e == CHOOSE i \in Positions(t, EndMarker) : TRUE
    IN  SubSeq(t, b + 1, e - 1)

Outside(t) ==
    LET b == CHOOSE i \in Positions(t, BeginMarker) : TRUE
        e == CHOOSE i \in Positions(t, EndMarker) : TRUE
    IN  SubSeq(t, 1, b - 1) \o SubSeq(t, e + 1, Len(t))

\* Texts without whitespace tokens at either end.
NoOuterWS(t) == t = << >> \/ (~IsWS(t[1]) /\ ~IsWS(t[Len(t)]))

\* The JSON values of a text that is one JSON value between optional whitespace.
JsonIn(t) == {t[i].v : i \in {j \in 1..Len(t) : t[j].k = "json"}}
IsJsonText(t) ==
    /\ Cardinality({j \in 1..Len(t) : t[j].k = "json"}) = 1
    /\ \A j \in 1..Len(t) : t[j].k \in {"json", "ws"}

\* The booking rows that carry the seven values of a payload.
RowHas(row, data) == \A f \in Fields : row[f] = data[f]

\* A dispatch for this booking failed.
DispatchFailed(id) ==
    [bookingId |-> id, outcome |-> "failed"] \in discordLog \cup emailLog

(***************************************************************************)
(* Properties.                                                             *)
(***************************************************************************)

\* C1: a request whose booking insert succeeded and whose Discord or email
\* dispatch then failed still answers 200 with bookingCreated carrying the id
\* storage assigned, and the table holds that one row of the request, with the
\* payload's values.
C1_DispatchFailureKeepsResult ==
    \A r \in Handlers :
        (Done(r) /\ \E id \in req[r].bookingIds : DispatchFailed(id)) =>
            \E id \in 1..Len(bookings) :
                /\ req[r].bookingIds = {id}
                /\ req[r].response.status = 200
                /\ "bookingCreated" \in DOMAIN req[r].response.body
                /\ req[r].response.body.bookingCreated # Null
                /\ req[r].response.body.bookingCreated.id = id
                /\ bookings[id].id = id
                /\ RowHas(bookings[id], req[r].bookingData)
                /\ bookings[id].notes = ChatNote

\* A first request has answered after its booking was stored and the Discord
\* webhook failed.
C1_Witness ==
    \E r \in Handlers :
        /\ Done(r)
        /\ Len(bookings) = 1
        /\ req[r].bookingIds = {1}
        /\ [bookingId |-> 1, outcome |-> "failed"] \in discordLog

\* C2: a request inserts at most one booking row, whatever the text and the
\* dispatch outcomes, and the row it inserts carries the payload extracted
\* from the block of its own assistant text.
C2_AtMostOneRowPerRequest ==
    /\ Len(bookings) <= started
    /\ \A r \in Handlers :
        /\ Cardinality(req[r].bookingIds) <= 1
        /\ \A id \in req[r].bookingIds :
             /\ id \in 1..Len(bookings)
             /\ HasBlock(req[r].assistantMessage)
             /\ IsJsonText(MatchGroup(req[r].assistantMessage))
             /\ \A data \in JsonIn(MatchGroup(req[r].assistantMessage)) :
                  RowHas(bookings[id], data)

\* A request whose text held two blocks has answered, a dispatch having
\* failed, with one row inserted.
C2_Witness ==
    \E r \in Handlers :
        /\ Done(r)
        /\ Cardinality(Positions(req[r].assistantMessage, BeginMarker)) = 2
        /\ req[r].bookingIds # {}
        /\ \E id \in req[r].bookingIds : DispatchFailed(id)

\* The payload a text carries in its block, if the block is one JSON value.
Carries(t, data) == HasBlock(t) /\ IsJsonText(MatchGroup(t)) /\ data \in JsonIn(MatchGroup(t))

\* Request r repeats an exchange stored earlier in its session: the same
\* message was answered with a text carrying the same payload, and a booking
\* row with that payload is in the table from before.
IsRetry(r, data) ==
    /\ Carries(req[r].assistantMessage, data)
    /\ \E i \in 1..(Len(conversations) - 1) :
         /\ {i, i + 1} \cap req[r].turnIds = {}
         /\ conversations[i].session_id = req[r].sessionId
         /\ conversations[i].role = "user"
         /\ conversations[i].content = req[r].message
         /\ conversations[i + 1].session_id = req[r].sessionId
         /\ conversations[i + 1].role = "assistant"
         /\ Carries(conversations[i + 1].content, data)
    /\ \E id \in 1..Len(bookings) :
         id \notin req[r].bookingIds /\ RowHas(bookings[id], data)

\* C3: a retried chat request whose assistant text carries the payload of the
\* earlier exchange again inserts no second booking row for it.
C3_RetryInsertsNoSecondRow ==
    \A r \in Handlers :
        \A data \in {Jane, Raul} :
            (Done(r) /\ IsRetry(r, data)) => req[r].bookingIds = {}

\* C4: a parsed payload with one of the seven fields absent or not a
\* non-empty string brings no booking row, no notification, bookingCreated
\* null and no error to the client.
Incomplete(data) == \E f \in Fields : f \notin DOMAIN data \/ data[f] = ""

C4_IncompletePayloadIsDiscarded ==
    \A r \in Handlers :
        \A data \in Payloads :
            (Done(r) /\ req[r].turnIds # {} /\ Carries(req[r].assistantMessage, data)
                     /\ Incomplete(data)) =>
                /\ req[r].bookingIds = {}
                /\ \A n \in discordLog \cup emailLog : n.bookingId \notin req[r].bookingIds
                /\ req[r].response.status = 200
                /\ DOMAIN req[r].response.body = {"response", "bookingCreated"}
                /\ req[r].response.body.bookingCreated = Null

\* The reply the spec's scenario leaves once its block is cut out: the two
\* whitespace runs that stood around the block remain between the words.
ScenarioReply == <<Word("Great, confirming!"), WS, WS, Word("Thanks!")>>

\* The request stored its two turns: the user turn, then the raw assistant text.
StoredTurns(r) ==
    \E n \in 1..(Len(conversations) - 1) :
        /\ req[r].turnIds = {n, n + 1}
        /\ conversations[n] = Turn(n, req[r].sessionId, "user", req[r].message, conversations[n].created_at)
        /\ conversations[n + 1] = Turn(n + 1, req[r].sessionId, "assistant", req[r].assistantMessage,
                                       conversations[n + 1].created_at)

\* C5: for a text with one marker pair around a JSON object with all seven
\* keys, when the insert succeeded, bookingCreated holds the seven values and
\* the id storage assigned, one row with those values and the chat note was
\* inserted, and the reply is the text with the marker span removed.
C5_WellFormedBlockIsBooked ==
    \A r \in Handlers :
        (/\ Done(r)
         /\ OnePair(req[r].assistantMessage)
         /\ IsJsonText(Between(req[r].assistantMessage))
         /\ \A data \in JsonIn(Between(req[r].assistantMessage)) : DOMAIN data = Fields
         /\ req[r].bookingIds # {}) =>
            \E id \in 1..Len(bookings) : \E data \in JsonIn(Between(req[r].assistantMessage)) :
                /\ req[r].bookingIds = {id}
                /\ bookings[id] = BookingRow(id, data, "Booked via AI chatbot", bookings[id].created_at)
                /\ \A other \in 1..Len(bookings) : bookings[other].id = id => other = id
                /\ IsReply(req[r].response, Trim(Outside(req[r].assistantMessage)),
                           [id |-> id, name |-> data.name, email |-> data.email,
                            phone |-> data.phone, service |-> data.service, date |-> data.date,
                            time |-> data.time, address |-> data.address])
                /\ Positions(req[r].response.body.response, BeginMarker) = {}
                /\ Positions(req[r].response.body.response, EndMarker) = {}
                /\ JsonIn(req[r].response.body.response) = {}

\* The scenario of the spec, as the second booking of the run: Jane's block is
\* booked under id 2 and cut from the reply.
C5_Witness ==
    \E r \in Handlers :
        /\ Done(r)
        /\ req[r].assistantMessage = Scenario(<<Json(Jane)>>)
        /\ req[r].bookingIds = {2}
        /\ req[r].response.body.bookingCreated.id = 2
        /\ req[r].response.body.response = ScenarioReply

\* C6: for a text with a marker pair around something that is no JSON, the
\* request inserts no booking row and answers 200 with bookingCreated null and
\* the reply with the whole block removed, its two turns stored; where the
\* turn append itself failed, it answers the apology and stored nothing.
C6_MalformedBlockIsStripped ==
    \A r \in Handlers :
        (/\ Done(r)
         /\ OnePair(req[r].assistantMessage)
         /\ ~IsJsonText(Between(req[r].assistantMessage))) =>
            /\ req[r].bookingIds = {}
            /\ \/ /\ IsReply(req[r].response, Trim(Outside(req[r].assistantMessage)), Null)
                  /\ StoredTurns(r)
               \/ /\ IsFallback(req[r].response)
                  /\ req[r].turnIds = {}

\* The scenario with a block that is no JSON has been answered, stripped.
C6_Witness ==
    \E r \in Handlers :
        /\ Done(r)
        /\ req[r].assistantMessage = Scenario(<<Word("{oops")>>)
        /\ StoredTurns(r)
        /\ IsReply(req[r].response, ScenarioReply, Null)
        /\ bookings = << >>

\* C7: a request that passed validation is answered 200 whatever fails after
\* it, with the apology and the phone number or with the visible reply.
C7_FailuresDegradeTo200 ==
    \A r \in Handlers :
        (Done(r) /\ ValidBody(req[r].body)) =>
            /\ req[r].response.status = 200
            /\ "response" \in DOMAIN req[r].response.body
            /\ \/ req[r].response.body.response = FallbackText
               \/ /\ req[r].turnIds # {}
                  /\ req[r].response.body.response = CleanResponse(req[r].assistantMessage)

\* The turn append failed after the model had answered: the apology goes out.
C7_Witness ==
    \E r \in Handlers :
        /\ Done(r)
        /\ ValidBody(req[r].body)
        /\ req[r].assistantMessage # << >>
        /\ req[r].turnIds = {}
        /\ IsFallback(req[r].response)

\* C8: a request whose JSON body lacks message or sessionId, or has it empty,
\* is answered 400 without a history read, a model call, a turn append or a
\* booking insert, and the step that answers it leaves both tables as they were.
C8_Rejected(r) ==
    /\ req[r].pc # "idle"
    /\ req[r].body.kind = "object"
    /\ ~ValidBody(req[r].body)

C8_InvalidBodyIs400 ==
    /\ [](\A r \in Handlers :
            C8_Rejected(r) =>
                /\ Done(r)
                /\ req[r].response.status = 400
                /\ req[r].history = << >>
                /\ req[r].messages = << >>
                /\ req[r].assistantMessage = << >>
                /\ req[r].turnIds = {}
                /\ req[r].bookingIds = {})
    /\ [][\A r \in Handlers :
            C8_Rejected(r)' => (conversations' = conversations /\ bookings' = bookings)]_vars

\* A second request, without sessionId, has been answered 400 over the tables
\* the first one filled.
C8_Witness ==
    \E r \in Handlers :
        /\ Done(r)
        /\ req[r].body.kind = "object"
        /\ req[r].body.has = {"message"}
        /\ req[r].response.status = 400
        /\ Len(conversations) = HistoryLimit + 2
        /\ Len(bookings) = 1

\* The turns of a session in the order they were appended, as {role, content}.
AppendedTurns(sid) ==
    LET mine == SelectSeq(conversations, LAMBDA row : row.session_id = sid)
    IN  [i \in 1..Len(mine) |-> [role |-> mine[i].role, content |-> mine[i].content]]

\* C9: a request that answers with a reply has appended exactly two turns,
\* the user turn and then the assistant turn, and a history load returns all
\* the turns appended to the session so far, in the order of their appending.
C9_HistoryIsAppendOrder ==
    \A r \in Handlers :
        /\ (Done(r) /\ "bookingCreated" \in DOMAIN req[r].response.body) => StoredTurns(r)
        /\ req[r].pc = "ai" => req[r].history = AppendedTurns(req[r].sessionId)

\* The last n elements of a sequence.
LastN(q, n) == SubSeq(q, IF Len(q) > n THEN Len(q) - n + 1 ELSE 1, Len(q))

\* The most recent n turns of a session, oldest first.
MostRecent(sid, n, rev) ==
    LET rows == {conversations[i] : i \in 1..Len(conversations)}
        mine == {row \in rows : row.session_id = sid}
        top == LastN(OrderByCreatedAt(mine, rev), n)
    IN  [i \in 1..Len(top) |-> [role |-> top[i].role, content |-> top[i].content]]

\* C10: a history load returns the 20 most recent turns of the session in
\* ascending order of creation, and all turns of a session with at most 20.
C10_HistoryIsMostRecent ==
    \A r \in Handlers :
        req[r].pc = "ai" =>
            \E rev \in BOOLEAN : req[r].history = MostRecent(req[r].sessionId, 20, rev)

\* The stored rows of a session.
RowsOf(sid) == {i \in 1..Len(conversations) : conversations[i].session_id = sid}

\* C11: the messages handed to the model for a request of session S are the
\* system prompt, then turns that are each the {role, content} of a row stored
\* under exactly S, as many as S has rows up to the limit, then the request's
\* message; a session without rows loads an empty history and no error.
C11_SessionIsolation ==
    \A r \in Handlers :
        req[r].pc = "ai" =>
            LET msgs == req[r].messages
                mine == RowsOf(req[r].sessionId)
            IN  /\ Len(msgs) = Len(req[r].history) + 2
                /\ msgs[1] = [role |-> "system", content |-> SystemPrompt]
                /\ msgs[Len(msgs)] = [role |-> "user", content |-> req[r].message]
                /\ \A i \in 2..(Len(msgs) - 1) :
                     \E j \in mine :
                         msgs[i] = [role |-> conversations[j].role,
                                    content |-> conversations[j].content]
                /\ Len(req[r].history) <= Cardinality(mine)
                /\ mine = {} => req[r].history = << >>

\* A request of session "ab", the first of that session, stands before the
\* model call with an empty history while the table holds 22 turns of
\* session "a".
C11_Witness ==
    \E r \in Handlers :
        /\ req[r].pc = "ai"
        /\ req[r].sessionId = "ab"
        /\ RowsOf("ab") = {}
        /\ Cardinality(RowsOf("a")) = HistoryLimit + 2
        /\ Len(req[r].messages) = 2

\* C12: for a text with several marker pairs whose turns were stored, the
\* request inserts at most one booking row, with the payload of the first
\* pair, and the reply holds no begin marker, no end marker and no payload.
C12_EveryPairIsStripped ==
    \A r \in Handlers :
        LET text == req[r].assistantMessage
        IN  (/\ Done(r)
             /\ req[r].turnIds # {}
             /\ Cardinality(Positions(text, BeginMarker)) > 1
             /\ Cardinality(Positions(text, EndMarker)) > 1) =>
                /\ Cardinality(req[r].bookingIds) <= 1
                /\ \A id \in req[r].bookingIds :
                     RowHas(bookings[id], ParseValue(MatchGroup(text)))
                /\ Positions(req[r].response.body.response, BeginMarker) = {}
                /\ Positions(req[r].response.body.response, EndMarker) = {}
                /\ JsonIn(req[r].response.body.response) = {}

\* C13: once a request that inserted a booking row has answered, a Discord
\* dispatch and an email dispatch carrying the row's id have both been
\* attempted, whatever the outcome of the other.
C13_BothDispatchesAttempted ==
    \A r \in Handlers :
        Done(r) =>
            \A id \in req[r].bookingIds :
                /\ \E n \in discordLog : n.bookingId = id
                /\ \E n \in emailLog : n.bookingId = id

\* The text does not hold both markers.
LacksBothMarkers(t) == Positions(t, BeginMarker) = {} \/ Positions(t, EndMarker) = {}

\* s is t without the whitespace at its two ends.
IsTrimOf(s, t) ==
    /\ NoOuterWS(s)
    /\ \E i \in 1..(Len(t) + 1) : \E j \in 0..Len(t) :
         /\ s = SubSeq(t, i, j)
         /\ \A k \in 1..Len(t) : (k < i \/ k > j) => IsWS(t[k])

C15_ResponseHasBothFields ==
    \A r \in Handlers :
        (Done(r) /\ req[r].response.status # 400) =>
            /\ {"response", "bookingCreated"} \subseteq DOMAIN req[r].response.body
            /\ \/ req[r].response.body.bookingCreated = Null
               \/ "id" \in DOMAIN req[r].response.body.bookingCreated

\* C16: the messages handed to the model are the system prompt, then the
\* loaded history turn by turn in the loader's order, each as {role, content},
\* then the request's message as the last element: as many as the history
\* has turns and two more, at most 22.
C16_MessagesAreSystemHistoryUser ==
    \A r \in Handlers :
        req[r].pc = "ai" =>
            LET msgs == req[r].messages
                history == req[r].history
            IN  /\ Len(msgs) = Len(history) + 2
                /\ Len(msgs) <= 22
                /\ msgs[1] = [role |-> "system", content |-> SystemPrompt]
                /\ \A i \in 1..Len(history) :
                     /\ DOMAIN msgs[i + 1] = {"role", "content"}
                     /\ msgs[i + 1].role = history[i].role
                     /\ msgs[i + 1].content = history[i].content
                /\ msgs[Len(msgs)] = [role |-> "user", content |-> req[r].message]

\* A request of session "a" stands before the model call with 22 messages:
\* the prompt, the 20 turns the query returned, the oldest first, and its own
\* message.
C16_Witness ==
    \E r \in Handlers :
        /\ req[r].pc = "ai"
        /\ req[r].sessionId = "a"
        /\ Len(req[r].history) = HistoryLimit
        /\ Len(req[r].messages) = HistoryLimit + 2
        /\ req[r].messages[2] = [role |-> "user", content |-> <<Word("q1")>>]
        /\ req[r].messages[HistoryLimit + 2].content = <<Word("hi")>>

C18_NothingBeforeTheTurnsCommit ==
    \A r \in Handlers :
        LET st == req[r]
        IN  /\ (Done(r) /\ st.messages # << >> /\ st.assistantMessage = << >>) =>
                 /\ st.turnIds = {}
                 /\ st.bookingIds = {}
                 /\ IsFallback(st.response)
            /\ (Done(r) /\ st.assistantMessage # << >> /\ st.turnIds = {}) =>
                 /\ st.bookingData = Null
                 /\ st.bookingIds = {}
                 /\ \A n \in discordLog \cup emailLog : n.bookingId <= Len(bookings)
                 /\ IsFallback(st.response)
                 /\ "bookingCreated" \notin DOMAIN st.response.body
            /\ st.bookingIds # {} => StoredTurns(r)
            /\ (Done(r) /\ st.response.status = 200 /\ ~IsFallback(st.response)) =>
                 /\ StoredTurns(r)
                 /\ st.response.body.response = CleanResponse(st.assistantMessage)

\* The model answered with Jane's block and the turn append failed: the
\* apology went out, and no turn, booking or notification came of the request.
C18_Witness ==
    \E r \in Handlers :
        /\ Done(r)
        /\ req[r].assistantMessage = Scenario(<<Json(Jane)>>)
        /\ req[r].turnIds = {}
        /\ IsFallback(req[r].response)
        /\ Len(conversations) = HistoryLimit
        /\ bookings = << >>
        /\ discordLog \cup emailLog = {}

\* A stored assistant turn of the session holds a block with a payload.
StoredBlock(sid) ==
    \E i \in RowsOf(sid) :
        /\ conversations[i].role = "assistant"
        /\ HasBlock(conversations[i].content)
        /\ ParseOk(MatchGroup(conversations[i].content))

\* C19: the assistant turn a request stored is the model's text as it came,
\* block included, and stays so through the extraction and the booking; a
\* request whose own text holds no block with a payload inserts no booking
\* row, whatever blocks its session has stored; the turns stored before stay
\* in the table as they were.
C19_StoredTurnsAreRaw ==
    /\ Len(conversations) >= HistoryLimit
    /\ SubSeq(conversations, 1, HistoryLimit) = PriorTurns(HistoryLimit \div 2)
    /\ \A r \in Handlers :
        LET text == req[r].assistantMessage
        IN  /\ req[r].turnIds # {} => StoredTurns(r)
            /\ (~HasBlock(text) \/ ~ParseOk(MatchGroup(text))) => req[r].bookingIds = {}

\* The first request of session "ab" stored Jane's block and booked it; the
\* second, answered with plain text, has finished: the block is still in the
\* stored turn, and the table holds the one booking.
C19_Witness ==
    \E r \in Handlers :
        /\ Done(r)
        /\ req[r].sessionId = "ab"
        /\ req[r].assistantMessage = <<Word("Sure!")>>
        /\ req[r].turnIds = {HistoryLimit + 3, HistoryLimit + 4}
        /\ StoredBlock("ab")
        /\ conversations[HistoryLimit + 2].content = Scenario(<<Json(Jane)>>)
        /\ req[r].bookingIds = {}
        /\ Len(bookings) = 1

\* The rows of a session with a role.
TurnsOf(sid, role) == {i \in RowsOf(sid) : conversations[i].role = role}

\* C20: however the requests interleave, the table is a sequence of pairs, a
\* user turn and right after it the assistant turn of the same session; each
\* request that stored its turns holds one such pair, its own message and its
\* own text, no two requests the same rows; no turn is missing, and every
\* session has as many user turns as assistant turns.
C20_PairsStayTogether ==
    /\ Len(conversations) = HistoryLimit + 2 * Cardinality({r \in Handlers : req[r].turnIds # {}})
    /\ \A i \in 1..Len(conversations) :
         i % 2 = 1 =>
             /\ i + 1 <= Len(conversations)
             /\ conversations[i].role = "user"
             /\ conversations[i + 1].role = "assistant"
             /\ conversations[i + 1].session_id = conversations[i].session_id
    /\ \A r \in Handlers : req[r].turnIds # {} => StoredTurns(r)
    /\ \A r1, r2 \in Handlers : r1 # r2 => req[r1].turnIds \cap req[r2].turnIds = {}
    /\ \A sid \in SessionIds :
         Cardinality(TurnsOf(sid, "user")) = Cardinality(TurnsOf(sid, "assistant"))

\* Two requests of session "ab" overlapped: the one received second stored
\* its pair first, and both have answered.
C20_Witness ==
    /\ \A r \in Handlers : Done(r) /\ req[r].sessionId = "ab"
    /\ req[2].turnIds = {HistoryLimit + 1, HistoryLimit + 2}
    /\ req[1].turnIds = {HistoryLimit + 3, HistoryLimit + 4}
    /\ Cardinality(TurnsOf("ab", "user")) = 2
    /\ Cardinality(TurnsOf("ab", "assistant")) = 2

\* s begins with q.
Extends(s, q) == Len(s) >= Len(q) /\ SubSeq(s, 1, Len(q)) = q

\* C21: no step of either endpoint changes or removes a stored turn or a
\* stored booking row: each table and each session's log after the step
\* begins with what it was before; the ids of the booking rows are pairwise
\* distinct, and every row the chat path created has status pending.
C21_StoresAreAppendOnly ==
    /\ [](/\ \A i, j \in 1..Len(bookings) : bookings[i].id = bookings[j].id => i = j
          /\ \A i \in 1..Len(bookings) :
               bookings[i].notes = ChatNote => bookings[i].status = "pending")
    /\ [][/\ Extends(conversations', conversations)
          /\ Extends(bookings', bookings)
          /\ conversations' # conversations =>
               \A sid \in SessionIds : Extends(AppendedTurns(sid)', AppendedTurns(sid))]_vars

\* A chat request and a direct booking request have both answered: the table
\* holds the chat path's row and the endpoint's row with its notes, after the
\* 20 earlier turns stand the two of the chat request.
C21_Witness ==
    /\ \A r \in Handlers : Done(r)
    /\ Len(bookings) = 2
    /\ bookings[1].notes = ChatNote
    /\ bookings[2].notes = "side gate"
    /\ emailLog # {}
    /\ Len(conversations) = HistoryLimit + 2

\* The request went to the direct booking endpoint.
ToBooking(r) == req[r].body.kind = "booking" \/ req[r].response = BookingError

\* C22: a request to the direct booking endpoint has inserted a booking row
\* if and only if its response is the success response; a 500 means no row
\* of the request is in the table.
C22_BookingIsAllOrNothing ==
    \A r \in Handlers :
        (Done(r) /\ ToBooking(r)) =>
            /\ req[r].bookingIds # {} <=>
                 (req[r].response.status = 200 /\ "success" \in DOMAIN req[r].response.body)
            /\ req[r].response.status = 500 => req[r].bookingIds = {}

\* The text before the begin marker and the text after the end marker, each
\* without the whitespace next to the removed span, joined by one whitespace.
JoinedReply(t) ==
    LET b == CHOOSE i \in Positions(t, BeginMarker) : TRUE
        e == CHOOSE i \in Positions(t, EndMarker) : TRUE
    IN  Trim(TrimEnd(SubSeq(t, 1, b - 1)) \o <<WS>> \o TrimStart(SubSeq(t, e + 1, Len(t))))

\* C23: for a text with one marker pair whose payload was booked, the reply
\* is the text before the begin marker joined with the text after the end
\* marker by a single whitespace, none at its ends; for the scenario of the
\* spec it is 'Great, confirming! Thanks!'.
C23_ReplyIsJoinedBySingleSpace ==
    \A r \in Handlers :
        (Done(r) /\ OnePair(req[r].assistantMessage) /\ req[r].bookingIds # {}) =>
            /\ req[r].response.body.response = JoinedReply(req[r].assistantMessage)
            /\ req[r].assistantMessage = Scenario(<<Json(Jane)>>) =>
                 req[r].response.body.response =
                     <<Word("Great, confirming!"), WS, Word("Thanks!")>>

====
